---- MODULE Spec2Model ----
(***************************************************************************)
(* Model of the Claude SDK agent executor of kagent                        *)
(* (python/packages/kagent-claude-sdk): ClaudeSDKAgentExecutor.execute,    *)
(* its _handle_request loop, the message converters and the task result    *)
(* aggregator it folds the converted events into.                          *)
(***************************************************************************)
EXTENDS Integers, Sequences, FiniteSets, TLC

(***************************************************************************)
(* Bounds of the model.                                                    *)
(***************************************************************************)
\* Largest number of runtime messages one response stream delivers.
MaxMsgs == 2

\* Largest number of content blocks of a message given to the converter.
MaxBlocks == 3

(***************************************************************************)
(* The request, the identifiers and the executor's configuration.          *)
(***************************************************************************)
task_id == "task-1"
context_id == "ctx-1"
app_name == "app"

\* ClaudeSDKAgentExecutorConfig.execution_timeout, as formatted in the f-string
TimeoutText == "Execution timed out after 300.0 seconds"
DefaultFailureText == "Task failed without error details. Check agent logs."

\* a2a Part: TextPart or DataPart (part.root)
TextPart(text, thought) ==
  [kind |-> "text", text |-> text, thought |-> thought]

DataPart(type, data) ==
  [kind |-> "data", type |-> type, data |-> data]

\* a2a Message; NoMessage stands for None
Message(message_id, role, parts) ==
  [present |-> TRUE, message_id |-> message_id, role |-> role, parts |-> parts]

NoMessage ==
  [present |-> FALSE, message_id |-> "", role |-> "", parts |-> <<>>]

\* The inbound messages a request can carry
RequestMessages ==
  { Message("m1", "user", <<TextPart("Hello", FALSE)>>),
    Message("m2", "user", <<TextPart("a", FALSE), DataPart("file", "blob"),
                            TextPart("b", FALSE)>>) }

\* RequestContext: message (possibly None) and current_task (is there one)
RequestContexts ==
  [message : RequestMessages \cup {NoMessage}, current_task : BOOLEAN]

(***************************************************************************)
(* Events written to the event queue.                                      *)
(***************************************************************************)
TerminalStates == {"completed", "failed", "cancelled"}

\* TaskStatusUpdateEvent; metadata is a set of <<key, value>> pairs
TaskStatusUpdateEvent(state, message, final, metadata) ==
  [kind |-> "status", state |-> state, message |-> message, final |-> final,
   metadata |-> metadata]

\* TaskArtifactUpdateEvent
TaskArtifactUpdateEvent(parts, last_chunk) ==
  [kind |-> "artifact", parts |-> parts, last_chunk |-> last_chunk,
   final |-> FALSE]

(***************************************************************************)
(* Messages of the agent runtime (claude_agent_sdk.types).                 *)
(***************************************************************************)
TextBlock(text) == [type |-> "text", text |-> text]
ThinkingBlock(thinking, signature) ==
  [type |-> "thinking", thinking |-> thinking, signature |-> signature]
ToolUseBlock(id, name, input) ==
  [type |-> "tool_use", id |-> id, name |-> name, input |-> input]
ToolResultBlock(tool_use_id, content, is_error) ==
  [type |-> "tool_result", tool_use_id |-> tool_use_id, content |-> content,
   is_error |-> is_error]

UserMessage(content) == [class |-> "UserMessage", content |-> content]
\* A UserMessage whose content is a plain string, not a list of blocks
UserTextMessage(text) ==
  [class |-> "UserMessage", content |-> <<>>, text |-> text]
AssistantMessage(content, model) ==
  [class |-> "AssistantMessage", content |-> content, model |-> model]
StreamEvent(session, event) ==
  [class |-> "StreamEvent", session_id |-> session, event |-> event]
\* total_cost_usd "None" stands for None, usage "" for an empty usage
ResultMessageWith(session, is_error, result, total_cost_usd, usage) ==
  [class |-> "ResultMessage", session_id |-> session, is_error |-> is_error,
   result |-> result, duration_ms |-> "500", duration_api_ms |-> "450",
   num_turns |-> "3", total_cost_usd |-> total_cost_usd, usage |-> usage]
ResultMessage(session, is_error, result) ==
  ResultMessageWith(session, is_error, result, "None", "")
SystemMessage(subtype, data) ==
  [class |-> "SystemMessage", subtype |-> subtype, data |-> data]

\* StreamEvent.event payloads
TextDelta(index, text) ==
  [type |-> "content_block_delta", delta_type |-> "text_delta",
   text |-> text, index |-> index]
\* A text delta whose event has no "index" key
TextDeltaWithoutIndex(text) ==
  [type |-> "content_block_delta", delta_type |-> "text_delta", text |-> text]
\* A delta of another type (input_json_delta), and an event of another type
JsonDelta(index) ==
  [type |-> "content_block_delta", delta_type |-> "input_json_delta",
   text |-> "", index |-> index]
MessageStart == [type |-> "message_start", delta_type |-> "", text |-> ""]
\* event is None or an empty dict
NoEvent == [type |-> "", delta_type |-> "", text |-> ""]

(***************************************************************************)
(* _converters.py                                                          *)
(***************************************************************************)
\* " ".join(text_parts)
RECURSIVE Join(_)
Join(texts) ==
  IF Len(texts) = 0 THEN ""
  ELSE IF Len(texts) = 1 THEN texts[1]
  ELSE texts[1] \o " " \o Join(Tail(texts))

\* Faulty variant of convert_a2a_message_to_claude_sdk: the data of a data
\* part is joined in as well
convert_a2a_message_joining_data(a2a_message) ==
  Join([i \in 1..Len(a2a_message.parts) |->
          IF a2a_message.parts[i].kind = "text" THEN a2a_message.parts[i].text
          ELSE a2a_message.parts[i].data])

\* convert_a2a_message_to_claude_sdk: the texts of the parts that have one
convert_a2a_message_to_claude_sdk(a2a_message) ==
  LET withText == SelectSeq(a2a_message.parts, LAMBDA part : part.kind = "text")
  IN  Join([i \in 1..Len(withText) |-> withText[i].text])

\* The result of a conversion: the events returned, or the error raised
Returned(events) == [raised |-> FALSE, error |-> "", events |-> events]
Raised(error) == [raised |-> TRUE, error |-> error, events |-> <<>>]

\* Faulty variant of ConvertUserMessage: the text blocks are forwarded too
ConvertUserMessageForwardingText(claude_message) ==
  LET blocks == IF "text" \in DOMAIN claude_message THEN <<>>
                ELSE claude_message.content
      a2a_parts == [i \in 1..Len(blocks) |->
                      IF blocks[i].type = "tool_result"
                      THEN DataPart("function_response",
                                    [tool_use_id |-> blocks[i].tool_use_id,
                                     content |-> blocks[i].content,
                                     is_error |-> blocks[i].is_error])
                      ELSE TextPart(blocks[i].text, FALSE)]
  IN  IF Len(a2a_parts) > 0
      THEN Returned(<<TaskStatusUpdateEvent(
                        "working", Message("uuid", "agent", a2a_parts),
                        FALSE, {})>>)
      ELSE Returned(<<>>)

\* UserMessage branch: one function_response DataPart per ToolResultBlock
ConvertUserMessage(claude_message) ==
  LET blocks == IF "text" \in DOMAIN claude_message THEN <<>>
                ELSE claude_message.content
      results == SelectSeq(blocks, LAMBDA block : block.type = "tool_result")
      a2a_parts == [i \in 1..Len(results) |->
                      DataPart("function_response",
                               [tool_use_id |-> results[i].tool_use_id,
                                content |-> results[i].content,
                                is_error |-> results[i].is_error])]
  IN  IF Len(a2a_parts) > 0
      THEN Returned(<<TaskStatusUpdateEvent(
                        "working", Message("uuid", "agent", a2a_parts),
                        FALSE, {})>>)
      ELSE Returned(<<>>)

\* Faulty variant of ThinkingText: the signature is left out
ThinkingTextWithoutSignature(block) ==
  "[Thinking: " \o block.thinking \o "]"

\* f"[Thinking: {block.thinking}]", plus the signature when there is one
ThinkingText(block) ==
  IF block.signature # ""
  THEN "[Thinking: " \o block.thinking \o "]"
         \o " (signature: " \o block.signature \o ")"
  ELSE "[Thinking: " \o block.thinking \o "]"

\* Faulty variant of AssistantBlocks: a ToolResultBlock is converted to a
\* function_response DataPart instead of raising
RECURSIVE AssistantBlocksTolerant(_, _, _)
AssistantBlocksTolerant(content, i, a2a_parts) ==
  IF i > Len(content) THEN [raised |-> FALSE, parts |-> a2a_parts]
  ELSE LET block == content[i] IN
    CASE block.type = "text" ->
           AssistantBlocksTolerant(content, i + 1, a2a_parts)
      [] block.type = "thinking" ->
           AssistantBlocksTolerant(content, i + 1,
             Append(a2a_parts, TextPart(ThinkingText(block), TRUE)))
      [] block.type = "tool_use" ->
           AssistantBlocksTolerant(content, i + 1,
             Append(a2a_parts,
                    DataPart("function_call",
                             [id |-> block.id, name |-> block.name,
                              input |-> block.input])))
      [] block.type = "tool_result" ->
           AssistantBlocksTolerant(content, i + 1,
             Append(a2a_parts,
                    DataPart("function_response",
                             [tool_use_id |-> block.tool_use_id,
                              content |-> block.content,
                              is_error |-> block.is_error])))
      [] OTHER -> AssistantBlocksTolerant(content, i + 1, a2a_parts)

\* Faulty variant of AssistantBlocks: a TextBlock becomes a TextPart
RECURSIVE AssistantBlocksWithText(_, _, _)
AssistantBlocksWithText(content, i, a2a_parts) ==
  IF i > Len(content) THEN [raised |-> FALSE, parts |-> a2a_parts]
  ELSE LET block == content[i] IN
    CASE block.type = "text" ->
           AssistantBlocksWithText(content, i + 1,
             Append(a2a_parts, TextPart(block.text, FALSE)))
      [] block.type = "thinking" ->
           AssistantBlocksWithText(content, i + 1,
             Append(a2a_parts, TextPart(ThinkingText(block), TRUE)))
      [] block.type = "tool_use" ->
           AssistantBlocksWithText(content, i + 1,
             Append(a2a_parts,
                    DataPart("function_call",
                             [id |-> block.id, name |-> block.name,
                              input |-> block.input])))
      [] block.type = "tool_result" ->
           [raised |-> TRUE, parts |-> <<>>]
      [] OTHER -> AssistantBlocksWithText(content, i + 1, a2a_parts)

\* The loop over the content blocks of an AssistantMessage, from block i on
RECURSIVE AssistantBlocks(_, _, _)
AssistantBlocks(content, i, a2a_parts) ==
  IF i > Len(content) THEN [raised |-> FALSE, parts |-> a2a_parts]
  ELSE LET block == content[i] IN
    CASE block.type = "text" ->
           AssistantBlocks(content, i + 1, a2a_parts)
      [] block.type = "thinking" ->
           AssistantBlocks(content, i + 1,
             Append(a2a_parts, TextPart(ThinkingText(block), TRUE)))
      [] block.type = "tool_use" ->
           AssistantBlocks(content, i + 1,
             Append(a2a_parts,
                    DataPart("function_call",
                             [id |-> block.id, name |-> block.name,
                              input |-> block.input])))
      [] block.type = "tool_result" ->
           [raised |-> TRUE, parts |-> <<>>]
      [] OTHER -> AssistantBlocks(content, i + 1, a2a_parts)

ProtocolViolationText == "ToolResultBlock found in AssistantMessage - architectural violation."

\* AssistantMessage branch
ConvertAssistantMessage(claude_message, app) ==
  LET r == AssistantBlocks(claude_message.content, 1, <<>>)
  IN  IF r.raised THEN Raised(ProtocolViolationText)
      ELSE IF Len(r.parts) > 0
      THEN Returned(<<TaskStatusUpdateEvent(
                        "working", Message("uuid", "agent", r.parts), FALSE,
                        { <<"kagent_app_name", app>>,
                          <<"kagent_model",
                            IF claude_message.model # "" THEN claude_message.model
                            ELSE "unknown">> })>>)
      ELSE Returned(<<>>)

\* event.get("index", 0)
content_index(event) == IF "index" \in DOMAIN event THEN event.index ELSE 0

\* Faulty variant of ConvertStreamEvent: the message id is derived from the
\* session id alone
ConvertStreamEventSessionId(claude_message) ==
  LET event == claude_message.event
      event_type == IF event.type # "" THEN event.type ELSE "unknown"
  IN  IF /\ event_type = "content_block_delta"
         /\ event.delta_type = "text_delta"
         /\ event.text # ""
      THEN Returned(<<TaskStatusUpdateEvent(
                        "working",
                        Message(claude_message.session_id \o "-content",
                                "agent", <<TextPart(event.text, FALSE)>>),
                        FALSE,
                        { <<"kagent_streaming", "True">>,
                          <<"kagent_stream_delta", "True">> })>>)
      ELSE Returned(<<>>)

\* Faulty variant of ConvertStreamEvent: a delta of any type produces an event
ConvertStreamEventAnyDelta(claude_message) ==
  LET event == claude_message.event
      event_type == IF event.type # "" THEN event.type ELSE "unknown"
  IN  IF event_type = "content_block_delta"
      THEN Returned(<<TaskStatusUpdateEvent(
                        "working",
                        Message(claude_message.session_id \o "-content-"
                                  \o ToString(content_index(event)),
                                "agent", <<TextPart(event.text, FALSE)>>),
                        FALSE,
                        { <<"kagent_streaming", "True">>,
                          <<"kagent_stream_delta", "True">> })>>)
      ELSE Returned(<<>>)

\* StreamEvent branch: a text delta of a content block
ConvertStreamEvent(claude_message) ==
  LET event == claude_message.event
      event_type == IF event.type # "" THEN event.type ELSE "unknown"
  IN  IF /\ event_type = "content_block_delta"
         /\ event.delta_type = "text_delta"
         /\ event.text # ""
      THEN Returned(<<TaskStatusUpdateEvent(
                        "working",
                        Message(claude_message.session_id \o "-content-"
                                  \o ToString(content_index(event)),
                                "agent", <<TextPart(event.text, FALSE)>>),
                        FALSE,
                        { <<"kagent_streaming", "True">>,
                          <<"kagent_stream_delta", "True">> })>>)
      ELSE Returned(<<>>)

\* lines 291-303: the metadata of a ResultMessage
ResultMetadata(claude_message) ==
  { <<"kagent_session_id", claude_message.session_id>>,
    <<"kagent_duration_ms", claude_message.duration_ms>>,
    <<"kagent_duration_api_ms", claude_message.duration_api_ms>>,
    <<"kagent_num_turns", claude_message.num_turns>>,
    <<"kagent_is_error", IF claude_message.is_error THEN "True" ELSE "False">> }
  \cup (IF claude_message.total_cost_usd # "None"
        THEN { <<"kagent_total_cost_usd", claude_message.total_cost_usd>> }
        ELSE {})
  \cup (IF claude_message.usage # ""
        THEN { <<"kagent_usage", claude_message.usage>> } ELSE {})
  \cup (IF claude_message.result # ""
        THEN { <<"kagent_result", claude_message.result>> } ELSE {})

\* Faulty variant of ConvertResultMessage: a ResultMessage with the error flag
\* set becomes a final failed event
ConvertResultMessageFinalOnError(claude_message) ==
  IF claude_message.is_error
  THEN Returned(<<TaskStatusUpdateEvent("failed", NoMessage, TRUE,
                                        ResultMetadata(claude_message))>>)
  ELSE Returned(<<TaskStatusUpdateEvent("working", NoMessage, FALSE,
                                        ResultMetadata(claude_message))>>)

\* ResultMessage branch: the metrics as metadata of a non-final working event
ConvertResultMessage(claude_message) ==
  Returned(<<TaskStatusUpdateEvent("working", NoMessage, FALSE,
                                   ResultMetadata(claude_message))>>)

\* Faulty variant of ConvertSystemMessage: every subtype becomes a failed
\* event
ConvertSystemMessageAnySubtype(claude_message) ==
  Returned(<<TaskStatusUpdateEvent(
               "failed",
               Message("uuid", "agent",
                       <<TextPart("Claude Code CLI Error: "
                                    \o claude_message.data, FALSE)>>),
               TRUE, {})>>)

\* Faulty variant of ConvertSystemMessage: subtype "error" becomes a final
\* cancelled event
ConvertSystemMessageCancelling(claude_message) ==
  IF claude_message.subtype = "error"
  THEN Returned(<<TaskStatusUpdateEvent(
                    "cancelled",
                    Message("uuid", "agent",
                            <<TextPart("Claude Code CLI Error: "
                                         \o claude_message.data, FALSE)>>),
                    TRUE, {})>>)
  ELSE Returned(<<>>)

\* SystemMessage branch: subtype "error" becomes a final failed event
ConvertSystemMessage(claude_message) ==
  IF claude_message.subtype = "error"
  THEN Returned(<<TaskStatusUpdateEvent(
                    "failed",
                    Message("uuid", "agent",
                            <<TextPart("Claude Code CLI Error: "
                                         \o claude_message.data, FALSE)>>),
                    TRUE, {})>>)
  ELSE Returned(<<>>)

\* convert_claude_sdk_message_to_a2a: the dispatch on the message class
convert_claude_sdk_message_to_a2a(claude_message, tid, cid, app) ==
  CASE claude_message.class = "UserMessage" ->
         ConvertUserMessage(claude_message)
    [] claude_message.class = "AssistantMessage" ->
         ConvertAssistantMessage(claude_message, app)
    [] claude_message.class = "StreamEvent" ->
         ConvertStreamEvent(claude_message)
    [] claude_message.class = "ResultMessage" ->
         ConvertResultMessage(claude_message)
    [] claude_message.class = "SystemMessage" ->
         ConvertSystemMessage(claude_message)
    [] OTHER -> Returned(<<>>)

(***************************************************************************)
(* kagent.core.a2a.TaskResultAggregator                                    *)
(***************************************************************************)
\* A new aggregator: state working, no status message
TaskResultAggregator ==
  [task_state |-> "working", task_status_message |-> NoMessage]

\* Faulty variant of process_event: the state of every event is recorded
process_event_overwriting(agg, event) ==
  IF event.kind # "status" THEN agg
  ELSE [task_state |-> event.state,
        task_status_message |->
          IF event.message.present /\ Len(event.message.parts) > 0
          THEN event.message
          ELSE agg.task_status_message]

\* Faulty variant of process_event: the status message of every event is
\* recorded, also a missing one
process_event_forgetting(agg, event) ==
  IF event.kind # "status" THEN agg
  ELSE [task_state |->
          IF agg.task_state \in TerminalStates THEN agg.task_state
          ELSE IF event.state \in TerminalStates THEN event.state
          ELSE agg.task_state,
        task_status_message |-> event.message]

\* process_event: a terminal state, once recorded, is kept; the last status
\* message is the most recent one that carries non-empty parts
process_event(agg, event) ==
  IF event.kind # "status" THEN agg
  ELSE [task_state |->
          IF agg.task_state \in TerminalStates THEN agg.task_state
          ELSE IF event.state \in TerminalStates THEN event.state
          ELSE agg.task_state,
        task_status_message |->
          IF event.message.present /\ Len(event.message.parts) > 0
          THEN event.message
          ELSE agg.task_status_message]

(***************************************************************************)
(* The agent runtime: what a response stream can deliver, and how a step   *)
(* of the exchange can fail.                                               *)
(***************************************************************************)
RuntimeMessages ==
  { AssistantMessage(<<TextBlock("Hi")>>, "claude"),
    AssistantMessage(<<ThinkingBlock("X", "sig-123"),
                       ToolUseBlock("tool-1", "calculator", "add")>>, "claude"),
    AssistantMessage(<<ToolUseBlock("tool-1", "calculator", "add"),
                       ToolResultBlock("tool-1", "42", FALSE)>>, ""),
    UserMessage(<<TextBlock("Hello"), ToolResultBlock("tool-1", "42", FALSE)>>),
    StreamEvent("s1", TextDelta(0, "Hel")),
    ResultMessage("s1", FALSE, "done"),
    ResultMessage("s2", TRUE, ""),
    SystemMessage("error", "cli crashed"),
    SystemMessage("init", "ready") }

\* Exceptions the runtime connection can raise (type and str(e))
RuntimeErrors ==
  { [type |-> "RuntimeError", text |-> "runtime failure"],
    [type |-> "TimeoutError", text |-> "read timed out"] }

NoError == [type |-> "", text |-> ""]

(***************************************************************************)
(* State of one call of ClaudeSDKAgentExecutor.execute.                    *)
(***************************************************************************)
VARIABLES
  pc,                       \* where execute is
  context,                  \* the RequestContext of the call
  config,                   \* ClaudeSDKAgentExecutorConfig
  options,                  \* the ClaudeAgentOptions the client is created with
  event_queue,              \* the events enqueued so far, in order
  client,                   \* the ClaudeSDKClient: "none", "open" or "closed"
  user_prompt,              \* the prompt sent by client.query
  task_result_aggregator,   \* the TaskResultAggregator of the call
  session_id,               \* last session id seen ("" for None)
  result_message_received,  \* last ResultMessage seen (NoResult for None)
  a2a_events,               \* converted events not yet forwarded
  received,                 \* number of runtime messages received
  stalled,                  \* the runtime delivers nothing more
  deadline,                 \* the asyncio.timeout: "unset", "armed", "expired", "left"
  error,                    \* the exception being handled
  arrived,                  \* history: the runtime messages received, in order
  processed,                \* history: the events the aggregator has processed
  cancel_called,            \* cancel was called for the task
  conv_message,             \* a runtime message given to the converter alone
  conv_result,              \* what the converter made of conv_message
  conv_previous,            \* the message converted before it, and its result
  cache,                    \* AgentDiscovery.cache: the AgentInfo objects by ref
  last_refresh,             \* AgentDiscovery.last_refresh
  clock,                    \* time.time()
  discovered,               \* history: the last call of discover_agents
  response_text,            \* the text given to chunk_text
  max_length,               \* the max_length given to chunk_text
  chunks                    \* the chunks chunk_text returned

\* The state of the slackbot services
slackbot_vars == <<cache, last_refresh, clock, discovered, response_text,
                   max_length, chunks>>

\* The state of the executor and of its converters
executor_vars == <<context, config, options, event_queue, client, user_prompt,
                   task_result_aggregator, session_id,
                   result_message_received, a2a_events, received, stalled,
                   deadline, error, arrived, processed, cancel_called,
                   conv_message, conv_result, conv_previous>>

vars == <<pc, context, config, options, event_queue, client, user_prompt,
          task_result_aggregator, session_id, result_message_received,
          a2a_events, received, stalled, deadline, error,
          arrived, processed, cancel_called, conv_message, conv_result,
          conv_previous, slackbot_vars>>

\* AgentDiscovery.__init__: an empty cache that was never refreshed
NotCalled == [called |-> FALSE]

\* The slackbot services as constructed, while no call of them is considered
SlackbotIdle ==
  /\ cache = {}
  /\ last_refresh = 0
  /\ clock = 0
  /\ discovered = NotCalled
  /\ response_text = <<>>
  /\ max_length = 0
  /\ chunks = <<>>

NoResult == [class |-> "None", session_id |-> "", is_error |-> FALSE, result |-> ""]

\* ClaudeAgentOptions as configured at construction
\* Placeholders of the converter's input and output while execute runs
NoInput == [class |-> "None"]
NotConverted == [converted |-> FALSE]
NoPrevious == [message |-> NoInput, result |-> NotConverted]

ConfiguredOptions ==
  [resume |-> "", continue_conversation |-> FALSE,
   include_partial_messages |-> FALSE, max_turns |-> 0]

Init ==
  /\ pc = "execute"
  /\ context \in RequestContexts
  /\ config \in [continue_conversation : BOOLEAN,
                 include_partial_messages : {TRUE}, max_turns : {0}]
  /\ options = ConfiguredOptions
  /\ event_queue = <<>>
  /\ client = "none"
  /\ user_prompt = ""
  /\ task_result_aggregator = TaskResultAggregator
  /\ session_id = ""
  /\ result_message_received = NoResult
  /\ a2a_events = <<>>
  /\ received = 0
  /\ stalled = FALSE
  /\ deadline = "unset"
  /\ error = NoError
  /\ arrived = <<>>
  /\ processed = <<>>
  /\ cancel_called = FALSE
  /\ SlackbotIdle
  /\ conv_message = NoInput
  /\ conv_result = NotConverted
  /\ conv_previous = NoPrevious

enqueue_event(event) == event_queue' = Append(event_queue, event)

(***************************************************************************)
(* execute                                                                 *)
(***************************************************************************)
\* Faulty variant of CheckMessage: the message is not checked before the
\* bookkeeping events
CheckMessageSkipped ==
  /\ pc = "execute"
  /\ pc' = "emit_submitted"
  /\ UNCHANGED <<context, config, options, event_queue, client, user_prompt,
                 task_result_aggregator, session_id, result_message_received,
                 a2a_events, received, stalled, deadline, error>>
  /\ UNCHANGED <<arrived, processed, cancel_called, conv_message, conv_result,
                 conv_previous, slackbot_vars>>

\* lines 64-65: a request without a message raises ValueError to the caller
CheckMessage ==
  /\ pc = "execute"
  /\ IF ~context.message.present
     THEN /\ pc' = "raised"
          /\ error' = [type |-> "ValueError",
                       text |-> "A2A request must have a message"]
     ELSE /\ pc' = "emit_submitted"
          /\ error' = error
  /\ UNCHANGED <<context, config, options, event_queue, client, user_prompt,
                 task_result_aggregator, session_id, result_message_received,
                 a2a_events, received, stalled, deadline>>
  /\ UNCHANGED <<arrived, processed, cancel_called, conv_message, conv_result,
                 conv_previous, slackbot_vars>>

\* Faulty variant of EmitSubmitted: the submitted event is emitted for every
\* request
EmitSubmittedAlways ==
  /\ pc = "emit_submitted"
  /\ enqueue_event(TaskStatusUpdateEvent("submitted", context.message,
                                         FALSE, {}))
  /\ pc' = "emit_working"
  /\ UNCHANGED <<context, config, options, client, user_prompt,
                 task_result_aggregator, session_id, result_message_received,
                 a2a_events, received, stalled, deadline, error>>
  /\ UNCHANGED <<arrived, processed, cancel_called, conv_message, conv_result,
                 conv_previous, slackbot_vars>>

\* lines 67-80: the submitted event of a new task
EmitSubmitted ==
  /\ pc = "emit_submitted"
  /\ IF ~context.current_task
     THEN enqueue_event(TaskStatusUpdateEvent("submitted", context.message,
                                              FALSE, {}))
     ELSE event_queue' = event_queue
  /\ pc' = "emit_working"
  /\ UNCHANGED <<context, config, options, client, user_prompt,
                 task_result_aggregator, session_id, result_message_received,
                 a2a_events, received, stalled, deadline, error>>
  /\ UNCHANGED <<arrived, processed, cancel_called, conv_message, conv_result,
                 conv_previous, slackbot_vars>>

\* lines 82-97: the working event
EmitWorking ==
  /\ pc = "emit_working"
  /\ enqueue_event(TaskStatusUpdateEvent(
       "working", NoMessage, FALSE,
       { <<"kagent_app_name", app_name>>, <<"kagent_session_id", context_id>> }))
  /\ pc' = "handle_request"
  /\ UNCHANGED <<context, config, options, client, user_prompt,
                 task_result_aggregator, session_id, result_message_received,
                 a2a_events, received, stalled, deadline, error>>
  /\ UNCHANGED <<arrived, processed, cancel_called, conv_message, conv_result,
                 conv_previous, slackbot_vars>>

\* lines 101-118: the error boundary of execute
ExceptHandler ==
  /\ pc = "except"
  /\ enqueue_event(TaskStatusUpdateEvent(
       "failed", Message("uuid", "agent", <<TextPart(error.text, FALSE)>>),
       TRUE, {}))
  /\ pc' = "returned"
  /\ UNCHANGED <<context, config, options, client, user_prompt,
                 task_result_aggregator, session_id, result_message_received,
                 a2a_events, received, stalled, deadline, error>>
  /\ UNCHANGED <<arrived, processed, cancel_called, conv_message, conv_result,
                 conv_previous, slackbot_vars>>

(***************************************************************************)
(* _handle_request                                                         *)
(***************************************************************************)
\* lines 126-146: the session options of the turn and the turn's accumulators
SetupOptions ==
  /\ pc = "handle_request"
  /\ options' =
       [resume |-> IF context.current_task THEN context_id ELSE options.resume,
        continue_conversation |->
          IF context.current_task THEN config.continue_conversation
          ELSE IF config.continue_conversation THEN TRUE ELSE FALSE,
        include_partial_messages |-> config.include_partial_messages,
        max_turns |-> IF config.max_turns # 0 THEN config.max_turns
                      ELSE options.max_turns]
  /\ task_result_aggregator' = TaskResultAggregator
  /\ session_id' = ""
  /\ result_message_received' = NoResult
  /\ pc' = "connect"
  /\ UNCHANGED <<context, config, event_queue, client, user_prompt,
                 a2a_events, received, stalled, deadline, error>>
  /\ UNCHANGED <<arrived, processed, cancel_called, conv_message, conv_result,
                 conv_previous, slackbot_vars>>

\* line 150: entering `async with ClaudeSDKClient(options)`; it connects or raises
Connect ==
  /\ pc = "connect"
  /\ \/ /\ client' = "open"
        /\ pc' = "query"
        /\ error' = error
     \/ \E e \in RuntimeErrors :
          /\ client' = client
          /\ pc' = "except"
          /\ error' = e
  /\ UNCHANGED <<context, config, options, event_queue, user_prompt,
                 task_result_aggregator, session_id, result_message_received,
                 a2a_events, received, stalled, deadline>>
  /\ UNCHANGED <<arrived, processed, cancel_called, conv_message, conv_result,
                 conv_previous, slackbot_vars>>

\* Faulty variant of Query: the receive loop is entered without a deadline
QueryWithoutDeadline ==
  /\ pc = "query"
  /\ user_prompt' = convert_a2a_message_to_claude_sdk(context.message)
  /\ \/ /\ pc' = "receive"
        /\ UNCHANGED <<client, error>>
     \/ \E e \in RuntimeErrors :
          /\ client' = "closed"
          /\ pc' = "except"
          /\ error' = e
  /\ UNCHANGED <<context, config, options, event_queue,
                 task_result_aggregator, session_id, result_message_received,
                 a2a_events, received, stalled, deadline>>
  /\ UNCHANGED <<arrived, processed, cancel_called, conv_message, conv_result,
                 conv_previous, slackbot_vars>>

\* lines 152-158: build the prompt and send it; on success the receive loop is
\* entered under asyncio.timeout, on an exception the client is closed
Query ==
  /\ pc = "query"
  /\ user_prompt' = convert_a2a_message_to_claude_sdk(context.message)
  /\ \/ /\ pc' = "receive"
        /\ deadline' = "armed"
        /\ UNCHANGED <<client, error>>
     \/ \E e \in RuntimeErrors :
          /\ client' = "closed"
          /\ pc' = "except"
          /\ error' = e
          /\ deadline' = deadline
  /\ UNCHANGED <<context, config, options, event_queue,
                 task_result_aggregator, session_id, result_message_received,
                 a2a_events, received, stalled>>
  /\ UNCHANGED <<arrived, processed, cancel_called, conv_message, conv_result,
                 conv_previous, slackbot_vars>>

\* Faulty variant of Receive: the first session id and the first ResultMessage
\* are kept
ReceiveKeepingFirst ==
  /\ pc = "receive"
  /\ ~stalled
  /\ received < MaxMsgs
  /\ \E message \in RuntimeMessages :
       LET converted == convert_claude_sdk_message_to_a2a(
                          message, task_id, context_id, app_name)
       IN  /\ received' = received + 1
           /\ arrived' = Append(arrived, message)
           /\ session_id' = IF "session_id" \in DOMAIN message /\ session_id = ""
                            THEN message.session_id ELSE session_id
           /\ result_message_received' =
                IF message.class = "ResultMessage"
                   /\ result_message_received = NoResult
                THEN message
                ELSE result_message_received
           /\ IF converted.raised
              THEN /\ error' = [type |-> "ValueError", text |-> converted.error]
                   /\ client' = "closed"
                   /\ deadline' = "left"
                   /\ pc' = "except"
                   /\ a2a_events' = <<>>
              ELSE /\ a2a_events' = converted.events
                   /\ pc' = IF Len(converted.events) > 0 THEN "forward"
                            ELSE "receive"
                   /\ UNCHANGED <<error, client, deadline>>
  /\ UNCHANGED <<context, config, options, event_queue, user_prompt,
                 task_result_aggregator, stalled>>
  /\ UNCHANGED <<processed, cancel_called, conv_message, conv_result, conv_previous, slackbot_vars>>

\* lines 159-175: one message of the response stream is received and converted
Receive ==
  /\ pc = "receive"
  /\ ~stalled
  /\ received < MaxMsgs
  /\ \E message \in RuntimeMessages :
       LET converted == convert_claude_sdk_message_to_a2a(
                          message, task_id, context_id, app_name)
       IN  /\ received' = received + 1
           /\ arrived' = Append(arrived, message)
           /\ session_id' = IF "session_id" \in DOMAIN message
                            THEN message.session_id ELSE session_id
           /\ result_message_received' =
                IF message.class = "ResultMessage" THEN message
                ELSE result_message_received
           /\ IF converted.raised
              THEN /\ error' = [type |-> "ValueError", text |-> converted.error]
                   /\ client' = "closed"
                   /\ deadline' = "left"
                   /\ pc' = "except"
                   /\ a2a_events' = <<>>
              ELSE /\ a2a_events' = converted.events
                   /\ pc' = IF Len(converted.events) > 0 THEN "forward"
                            ELSE "receive"
                   /\ UNCHANGED <<error, client, deadline>>
  /\ UNCHANGED <<context, config, options, event_queue, user_prompt,
                 task_result_aggregator, stalled>>
  /\ UNCHANGED <<processed, cancel_called, conv_message, conv_result,
                 conv_previous, slackbot_vars>>

\* Faulty variant of Forward: the event is enqueued without being given to the
\* aggregator
ForwardWithoutAggregator ==
  /\ pc = "forward"
  /\ enqueue_event(Head(a2a_events))
  /\ a2a_events' = Tail(a2a_events)
  /\ pc' = IF Len(a2a_events) > 1 THEN "forward" ELSE "receive"
  /\ UNCHANGED <<context, config, options, client, user_prompt, session_id,
                 result_message_received, received, stalled, deadline, error,
                 task_result_aggregator>>
  /\ UNCHANGED <<arrived, processed, cancel_called, conv_message, conv_result,
                 conv_previous, slackbot_vars>>

\* Faulty variant of Forward: the event is enqueued twice
ForwardDuplicating ==
  /\ pc = "forward"
  /\ task_result_aggregator' = process_event(task_result_aggregator,
                                             Head(a2a_events))
  /\ event_queue' = event_queue \o <<Head(a2a_events), Head(a2a_events)>>
  /\ processed' = Append(processed, Head(a2a_events))
  /\ a2a_events' = Tail(a2a_events)
  /\ pc' = IF Len(a2a_events) > 1 THEN "forward" ELSE "receive"
  /\ UNCHANGED <<context, config, options, client, user_prompt, session_id,
                 result_message_received, received, stalled, deadline, error>>
  /\ UNCHANGED <<arrived, cancel_called, conv_message, conv_result,
                 conv_previous, slackbot_vars>>

\* lines 177-179: the aggregator processes the next event, then it is enqueued
Forward ==
  /\ pc = "forward"
  /\ task_result_aggregator' = process_event(task_result_aggregator,
                                             Head(a2a_events))
  /\ enqueue_event(Head(a2a_events))
  /\ processed' = Append(processed, Head(a2a_events))
  /\ a2a_events' = Tail(a2a_events)
  /\ pc' = IF Len(a2a_events) > 1 THEN "forward" ELSE "receive"
  /\ UNCHANGED <<context, config, options, client, user_prompt, session_id,
                 result_message_received, received, stalled, deadline, error>>
  /\ UNCHANGED <<arrived, cancel_called, conv_message, conv_result,
                 conv_previous, slackbot_vars>>

\* line 159: the response stream ends; the timeout and the client are left
StreamEnd ==
  /\ pc = "receive"
  /\ ~stalled
  /\ pc' = "outcome"
  /\ client' = "closed"
  /\ deadline' = "left"
  /\ UNCHANGED <<context, config, options, event_queue, user_prompt,
                 task_result_aggregator, session_id, result_message_received,
                 a2a_events, received, stalled, error>>
  /\ UNCHANGED <<arrived, processed, cancel_called, conv_message, conv_result,
                 conv_previous, slackbot_vars>>

\* line 159: the response stream raises; a TimeoutError is caught at line 181,
\* anything else leaves the client and reaches the error boundary of execute
ReceiveError ==
  /\ pc = "receive"
  /\ ~stalled
  /\ \E e \in RuntimeErrors :
       /\ error' = e
       /\ IF e.type = "TimeoutError"
          THEN /\ pc' = "timeout_handler"
               /\ UNCHANGED <<client, deadline>>
          ELSE /\ pc' = "except"
               /\ client' = "closed"
               /\ deadline' = "left"
  /\ UNCHANGED <<context, config, options, event_queue, user_prompt,
                 task_result_aggregator, session_id, result_message_received,
                 a2a_events, received, stalled>>
  /\ UNCHANGED <<arrived, processed, cancel_called, conv_message, conv_result,
                 conv_previous, slackbot_vars>>

\* The runtime stops delivering: the stream neither yields nor ends
RuntimeStall ==
  /\ pc = "receive"
  /\ ~stalled
  /\ stalled' = TRUE
  /\ UNCHANGED <<pc, context, config, options, event_queue, client,
                 user_prompt, task_result_aggregator, session_id,
                 result_message_received, a2a_events, received, deadline, error>>
  /\ UNCHANGED <<arrived, processed, cancel_called, conv_message, conv_result,
                 conv_previous, slackbot_vars>>

\* line 158: the deadline of asyncio.timeout passes while the loop is suspended
DeadlineExpires ==
  /\ pc \in {"receive", "forward"}
  /\ deadline = "armed"
  /\ deadline' = "expired"
  /\ a2a_events' = <<>>
  /\ error' = [type |-> "TimeoutError", text |-> ""]
  /\ pc' = "timeout_handler"
  /\ UNCHANGED <<context, config, options, event_queue, client, user_prompt,
                 task_result_aggregator, session_id, result_message_received,
                 received, stalled>>
  /\ UNCHANGED <<arrived, processed, cancel_called, conv_message, conv_result,
                 conv_previous, slackbot_vars>>

\* Faulty variant of TimeoutHandler: no return after the timeout event, so the
\* outcome after the loop is emitted as well
TimeoutHandlerNoReturn ==
  /\ pc = "timeout_handler"
  /\ enqueue_event(TaskStatusUpdateEvent(
       "failed", Message("uuid", "agent", <<TextPart(TimeoutText, FALSE)>>),
       TRUE, {}))
  /\ client' = "closed"
  /\ pc' = "outcome"
  /\ UNCHANGED <<context, config, options, user_prompt,
                 task_result_aggregator, session_id, result_message_received,
                 a2a_events, received, stalled, deadline, error>>
  /\ UNCHANGED <<arrived, processed, cancel_called, conv_message, conv_result,
                 conv_previous, slackbot_vars>>

\* Faulty variant of TimeoutHandler: the timeout path returns without closing
\* the client
TimeoutHandlerLeak ==
  /\ pc = "timeout_handler"
  /\ enqueue_event(TaskStatusUpdateEvent(
       "failed", Message("uuid", "agent", <<TextPart(TimeoutText, FALSE)>>),
       TRUE, {}))
  /\ pc' = "returned"
  /\ UNCHANGED <<context, config, options, client, user_prompt,
                 task_result_aggregator, session_id, result_message_received,
                 a2a_events, received, stalled, deadline, error>>
  /\ UNCHANGED <<arrived, processed, cancel_called, conv_message, conv_result,
                 conv_previous, slackbot_vars>>

\* lines 181-207: the failed event of a timeout, then return through the client
TimeoutHandler ==
  /\ pc = "timeout_handler"
  /\ enqueue_event(TaskStatusUpdateEvent(
       "failed", Message("uuid", "agent", <<TextPart(TimeoutText, FALSE)>>),
       TRUE, {}))
  /\ client' = "closed"
  /\ pc' = "returned"
  /\ UNCHANGED <<context, config, options, user_prompt,
                 task_result_aggregator, session_id, result_message_received,
                 a2a_events, received, stalled, deadline, error>>
  /\ UNCHANGED <<arrived, processed, cancel_called, conv_message, conv_result,
                 conv_previous, slackbot_vars>>

\* lines 209-214
final_metadata ==
  { <<"kagent_app_name", app_name>> }
    \cup (IF session_id # "" THEN { <<"kagent_session_id", session_id>> } ELSE {})

\* Faulty variant of is_success: the aggregator's state is not consulted
is_success_ignoring_state ==
  /\ result_message_received # NoResult
  /\ ~result_message_received.is_error

\* lines 226-230
is_success ==
  /\ result_message_received # NoResult
  /\ ~result_message_received.is_error
  /\ task_result_aggregator.task_state = "working"

\* lines 235-238
has_accumulated_parts ==
  /\ task_result_aggregator.task_status_message.present
  /\ Len(task_result_aggregator.task_status_message.parts) > 0

\* Faulty variant of DecideOutcome: every success emits an artifact
DecideOutcomeArtifactAlways ==
  /\ pc = "outcome"
  /\ pc' = IF is_success THEN "emit_artifact" ELSE "emit_failed"
  /\ UNCHANGED <<context, config, options, event_queue, client, user_prompt,
                 task_result_aggregator, session_id, result_message_received,
                 a2a_events, received, stalled, deadline, error>>
  /\ UNCHANGED <<arrived, processed, cancel_called, conv_message, conv_result,
                 conv_previous, slackbot_vars>>

\* lines 209-238: the outcome is decided
DecideOutcome ==
  /\ pc = "outcome"
  /\ pc' = IF is_success
           THEN (IF has_accumulated_parts THEN "emit_artifact"
                 ELSE "emit_completed")
           ELSE "emit_failed"
  /\ UNCHANGED <<context, config, options, event_queue, client, user_prompt,
                 task_result_aggregator, session_id, result_message_received,
                 a2a_events, received, stalled, deadline, error>>
  /\ UNCHANGED <<arrived, processed, cancel_called, conv_message, conv_result,
                 conv_previous, slackbot_vars>>

\* lines 239-250: the artifact of the accumulated parts
EmitArtifact ==
  /\ pc = "emit_artifact"
  /\ enqueue_event(TaskArtifactUpdateEvent(
       task_result_aggregator.task_status_message.parts, TRUE))
  /\ pc' = "emit_completed"
  /\ UNCHANGED <<context, config, options, client, user_prompt,
                 task_result_aggregator, session_id, result_message_received,
                 a2a_events, received, stalled, deadline, error>>
  /\ UNCHANGED <<arrived, processed, cancel_called, conv_message, conv_result,
                 conv_previous, slackbot_vars>>

\* lines 252-264: the completed event
EmitCompleted ==
  /\ pc = "emit_completed"
  /\ enqueue_event(TaskStatusUpdateEvent("completed", NoMessage, TRUE,
                                         final_metadata))
  /\ pc' = "returned"
  /\ UNCHANGED <<context, config, options, client, user_prompt,
                 task_result_aggregator, session_id, result_message_received,
                 a2a_events, received, stalled, deadline, error>>
  /\ UNCHANGED <<arrived, processed, cancel_called, conv_message, conv_result,
                 conv_previous, slackbot_vars>>

\* Faulty variant of failure_message: no default message
failure_message_unchecked == task_result_aggregator.task_status_message

\* lines 266-274
failure_message ==
  IF has_accumulated_parts THEN task_result_aggregator.task_status_message
  ELSE Message("uuid", "agent", <<TextPart(DefaultFailureText, FALSE)>>)

\* lines 265-288: the final event of the failure case, at the aggregator's state
EmitFailed ==
  /\ pc = "emit_failed"
  /\ enqueue_event(TaskStatusUpdateEvent(task_result_aggregator.task_state,
                                         failure_message, TRUE, final_metadata))
  /\ pc' = "returned"
  /\ UNCHANGED <<context, config, options, client, user_prompt,
                 task_result_aggregator, session_id, result_message_received,
                 a2a_events, received, stalled, deadline, error>>
  /\ UNCHANGED <<arrived, processed, cancel_called, conv_message, conv_result,
                 conv_previous, slackbot_vars>>

\* lines 209-288: building or enqueuing an outcome event raises
OutcomeError ==
  /\ pc \in {"emit_artifact", "emit_completed", "emit_failed"}
  /\ \E e \in RuntimeErrors : error' = e
  /\ pc' = "except"
  /\ UNCHANGED <<context, config, options, event_queue, client, user_prompt,
                 task_result_aggregator, session_id, result_message_received,
                 a2a_events, received, stalled, deadline>>
  /\ UNCHANGED <<arrived, processed, cancel_called, conv_message, conv_result,
                 conv_previous, slackbot_vars>>

(***************************************************************************)
(* cancel                                                                  *)
(***************************************************************************)
CancelledEvent ==
  TaskStatusUpdateEvent(
    "cancelled",
    Message("uuid", "agent", <<TextPart("Task cancelled by user", FALSE)>>),
    TRUE, {})

\* Faulty variant of Cancel: the running execute is interrupted and its client
\* is closed
CancelInterrupting ==
  /\ ~cancel_called
  /\ cancel_called' = TRUE
  /\ enqueue_event(CancelledEvent)
  /\ pc' = IF pc \in {"execute", "raised"} THEN pc ELSE "returned"
  /\ client' = IF client = "open" THEN "closed" ELSE client
  /\ UNCHANGED <<context, config, options, user_prompt,
                 task_result_aggregator, session_id, result_message_received,
                 a2a_events, received, stalled, deadline, error, arrived,
                 processed, conv_message, conv_result, conv_previous, slackbot_vars>>

\* lines 290-310: cancel enqueues the cancelled event; the running client is
\* not tracked and not interrupted
Cancel ==
  /\ ~cancel_called
  /\ cancel_called' = TRUE
  /\ enqueue_event(CancelledEvent)
  /\ UNCHANGED <<pc, context, config, options, client, user_prompt,
                 task_result_aggregator, session_id, result_message_received,
                 a2a_events, received, stalled, deadline, error, arrived,
                 processed, conv_message, conv_result, conv_previous, slackbot_vars>>

(***************************************************************************)
(* The specifications.                                                     *)
(***************************************************************************)
Next ==
  \/ CheckMessage
  \/ EmitSubmitted
  \/ EmitWorking
  \/ SetupOptions
  \/ Connect
  \/ Query
  \/ Receive
  \/ Forward
  \/ StreamEnd
  \/ ReceiveError
  \/ RuntimeStall
  \/ DeadlineExpires
  \/ TimeoutHandler
  \/ DecideOutcome
  \/ EmitArtifact
  \/ EmitCompleted
  \/ EmitFailed
  \/ OutcomeError
  \/ ExceptHandler

Spec == Init /\ [][Next]_vars

\* The event loop runs every step of execute that is ready, the deadline of
\* asyncio.timeout fires once it is armed, and the runtime answers each step
\* of the exchange unless it stalls inside the receive loop
FairSpec == Spec /\ WF_vars(Next)

\* One call of execute for a new task, and one call of cancel for the same
\* task on the same event queue at any moment
CancelInit ==
  /\ Init
  /\ context.message.present
  /\ context.message.message_id = "m1"
  /\ ~context.current_task
  /\ config.continue_conversation

CancelNext == Next \/ Cancel

CancelSpec == CancelInit /\ [][CancelNext]_vars

\* execute is called again on the same executor once the previous call is
\* over. Line 127: the options the call works on are a deep copy of the
\* executor's options when the options class has model_copy, and the executor's
\* options object itself, as the previous calls left it, when it has not
Reinvoke ==
  /\ pc \in {"returned", "raised"}
  /\ pc' = "execute"
  /\ context' \in RequestContexts
  /\ \E has_model_copy \in BOOLEAN :
       options' = IF has_model_copy THEN ConfiguredOptions ELSE options
  /\ event_queue' = <<>>
  /\ client' = "none"
  /\ user_prompt' = ""
  /\ task_result_aggregator' = TaskResultAggregator
  /\ session_id' = ""
  /\ result_message_received' = NoResult
  /\ a2a_events' = <<>>
  /\ received' = 0
  /\ stalled' = FALSE
  /\ deadline' = "unset"
  /\ error' = NoError
  /\ arrived' = <<>>
  /\ processed' = <<>>
  /\ UNCHANGED <<config, cancel_called, conv_message, conv_result,
                 conv_previous, slackbot_vars>>

\* The calls of execute that one executor serves, one after the other
ExecutorNext == Next \/ Reinvoke

ExecutorSpec == Init /\ [][ExecutorNext]_vars

(***************************************************************************)
(* The converters alone: convert_claude_sdk_message_to_a2a applied to one   *)
(* runtime message, then to a following stream event, and                  *)
(* convert_a2a_message_to_claude_sdk applied to one inbound message.       *)
(***************************************************************************)
\* Sequences over S of length at most n
SeqsUpTo(S, n) == UNION { [1..k -> S] : k \in 0..n }

AssistantBlockChoices ==
  { TextBlock("I'll help with that."),
    ThinkingBlock("Need to calculate this", "sig-123"),
    ThinkingBlock("Hmm", ""),
    ToolUseBlock("tool-1", "calculator", "add"),
    ToolResultBlock("tool-1", "Result: 3", FALSE) }

UserBlockChoices ==
  { TextBlock("Hello"),
    ToolResultBlock("tool-1", "Result: 42", FALSE),
    ToolResultBlock("tool-2", "boom", TRUE) }

\* The stream events the converter is applied to
StreamInputs ==
  { StreamEvent(session, event) :
      session \in {"session-1", "session-2"},
      event \in { TextDelta(0, "Streaming text..."), TextDelta(0, "more"),
                  TextDelta(1, "Streaming text..."), TextDelta(0, ""),
                  TextDeltaWithoutIndex("more"), JsonDelta(0),
                  MessageStart, NoEvent } }

ResultInputs ==
  { ResultMessageWith("session-1", is_error, result, total_cost_usd, usage) :
      is_error \in BOOLEAN, result \in {"", "Success"},
      total_cost_usd \in {"None", "0.001"}, usage \in {"", "150 tokens"} }

SystemInputs ==
  { SystemMessage(subtype, data) :
      subtype \in {"error", "init", "warning", ""},
      data \in {"cli crashed", ""} }

\* The messages the converter is applied to
ConverterInputs ==
  { AssistantMessage(content, model) :
      content \in SeqsUpTo(AssistantBlockChoices, MaxBlocks),
      model \in {"claude-3-5-sonnet", ""} }
  \cup { UserMessage(content) : content \in SeqsUpTo(UserBlockChoices, MaxBlocks) }
  \cup { UserTextMessage("Hello") }
  \cup StreamInputs
  \cup ResultInputs
  \cup SystemInputs

\* The inbound messages the prompt is built from
PartChoices ==
  { TextPart("a", FALSE), TextPart("b", FALSE), DataPart("file", "blob") }

PromptInputs ==
  { Message("test-id", "user", parts) : parts \in SeqsUpTo(PartChoices, MaxBlocks) }

ConverterInit ==
  /\ \/ /\ pc = "convert"
        /\ conv_message \in ConverterInputs
        /\ context = [message |-> NoMessage, current_task |-> FALSE]
     \/ /\ pc = "to_prompt"
        /\ conv_message = NoInput
        /\ context \in [message : PromptInputs, current_task : {FALSE}]
  /\ conv_result = NotConverted
  /\ conv_previous = NoPrevious
  /\ config = [continue_conversation |-> TRUE,
               include_partial_messages |-> TRUE, max_turns |-> 0]
  /\ options = ConfiguredOptions
  /\ event_queue = <<>>
  /\ client = "none"
  /\ user_prompt = ""
  /\ task_result_aggregator = TaskResultAggregator
  /\ session_id = ""
  /\ result_message_received = NoResult
  /\ a2a_events = <<>>
  /\ received = 0
  /\ stalled = FALSE
  /\ deadline = "unset"
  /\ error = NoError
  /\ arrived = <<>>
  /\ processed = <<>>
  /\ cancel_called = FALSE
  /\ SlackbotIdle

\* One call of convert_claude_sdk_message_to_a2a
ConvertMessage ==
  /\ pc = "convert"
  /\ conv_result = NotConverted
  /\ conv_result' = [converted |-> TRUE] @@
       convert_claude_sdk_message_to_a2a(conv_message, task_id, context_id,
                                         app_name)
  /\ UNCHANGED <<pc, context, config, options, event_queue, client,
                 user_prompt, task_result_aggregator, session_id,
                 result_message_received, a2a_events, received, stalled,
                 deadline, error, arrived, processed, cancel_called,
                 conv_message, conv_previous, slackbot_vars>>

\* The next stream event of the response is given to the converter
NextStreamEvent ==
  /\ pc = "convert"
  /\ conv_result # NotConverted
  /\ conv_message.class = "StreamEvent"
  /\ conv_previous = NoPrevious
  /\ conv_previous' = [message |-> conv_message, result |-> conv_result]
  /\ conv_message' \in StreamInputs
  /\ conv_result' = NotConverted
  /\ UNCHANGED <<pc, context, config, options, event_queue, client,
                 user_prompt, task_result_aggregator, session_id,
                 result_message_received, a2a_events, received, stalled,
                 deadline, error, arrived, processed, cancel_called,
                 slackbot_vars>>

\* One call of convert_a2a_message_to_claude_sdk
ConvertPrompt ==
  /\ pc = "to_prompt"
  /\ user_prompt' = convert_a2a_message_to_claude_sdk(context.message)
  /\ pc' = "prompt_built"
  /\ UNCHANGED <<context, config, options, event_queue, client,
                 task_result_aggregator, session_id,
                 result_message_received, a2a_events, received, stalled,
                 deadline, error, arrived, processed, cancel_called,
                 conv_message, conv_result, conv_previous, slackbot_vars>>

ConverterNext ==
  \/ ConvertMessage
  \/ NextStreamEvent
  \/ ConvertPrompt

ConverterSpec == ConverterInit /\ [][ConverterNext]_vars

(***************************************************************************)
(* Properties of execute.                                                  *)
(***************************************************************************)
FinalEvents == { i \in 1..Len(event_queue) : event_queue[i].final }

\* The events whose message body is the single text part `text`
EventsWithBody(text) ==
  { i \in 1..Len(event_queue) :
      /\ event_queue[i].kind = "status"
      /\ event_queue[i].message.present
      /\ event_queue[i].message.parts = <<TextPart(text, FALSE)>> }

LastEvent == event_queue[Len(event_queue)]

\* C1: one call of execute enqueues at most one event with final=true,
\* whatever the runtime delivers (system errors, timeouts and exceptions
\* included).
C1_AtMostOneFinalEvent == Cardinality(FinalEvents) <= 1

\* C2: the final=true event ends the stream: once a final=true event has been
\* enqueued, execute enqueues no further event.
C2_NothingAfterFinalEvent ==
  [][FinalEvents # {} => event_queue' = event_queue]_vars

\* C3: every call of execute whose request carries a message eventually has
\* enqueued a final=true event and has returned.
C3_EventuallyFinalAndReturned ==
  context.message.present ~> (pc = "returned" /\ FinalEvents # {})

\* A stalled runtime was cut off by the deadline and execute returned.
C3_Witness ==
  /\ pc = "returned"
  /\ stalled
  /\ deadline = "expired"
  /\ FinalEvents # {}

\* C4: every final=true event that execute enqueues carries a terminal state
\* (completed, failed or cancelled), never working or submitted.
C4_FinalEventsAreTerminal ==
  \A i \in FinalEvents : event_queue[i].state \in TerminalStates

\* C5: when the receive loop ends without a timeout or an exception, the
\* final event of execute has state completed if and only if a terminal-metrics
\* message was received, the last one reports is_error=false, and the
\* aggregator's state at the end of the loop is still working.
C5_CompletedIffSuccess ==
  (pc = "returned" /\ deadline = "left" /\ error = NoError) =>
    /\ Len(event_queue) > 0
    /\ LastEvent.kind = "status"
    /\ LastEvent.final
    /\ (LastEvent.state = "completed") <=>
         /\ result_message_received.class = "ResultMessage"
         /\ ~result_message_received.is_error
         /\ task_result_aggregator.task_state = "working"

\* The loop ended normally and the outcome is completed.
C5_Witness ==
  /\ pc = "returned"
  /\ deadline = "left"
  /\ error = NoError
  /\ LastEvent.kind = "status"
  /\ LastEvent.state = "completed"

\* C6: once the aggregator has recorded a terminal state, processing a later
\* event leaves its state unchanged: it never regresses to working.
C6_TerminalStateIsKept ==
  [][(pc = "forward" /\ task_result_aggregator.task_state \in TerminalStates)
       => task_result_aggregator'.task_state
            = task_result_aggregator.task_state]_vars

\* A non-final working event was processed after the failure was recorded.
C6_Witness ==
  /\ task_result_aggregator.task_state = "failed"
  /\ Len(event_queue) > 1
  /\ LastEvent.kind = "status"
  /\ LastEvent.state = "working"
  /\ ~LastEvent.final
  /\ \E i \in 1..(Len(event_queue) - 1) : event_queue[i].state = "failed"

\* C7: when the deadline expires, execute emits exactly one failed final event
\* whose body is the timeout text, processes no further runtime message, and
\* enqueues nothing after that event.
C7_TimeoutEndsTheTurn ==
  /\ [](deadline = "expired" =>
          /\ pc \in {"timeout_handler", "returned"}
          /\ a2a_events = <<>>
          /\ pc = "returned" =>
               /\ Cardinality(EventsWithBody(TimeoutText)) = 1
               /\ LastEvent.final
               /\ LastEvent.state = "failed"
               /\ Len(event_queue) \in EventsWithBody(TimeoutText))
  /\ [][deadline = "expired" =>
          /\ received' = received
          /\ task_result_aggregator' = task_result_aggregator
          /\ pc = "returned" => event_queue' = event_queue]_vars

\* The deadline expired after a message had been received, and execute returned.
C7_Witness ==
  /\ deadline = "expired"
  /\ pc = "returned"
  /\ received > 0

\* C8: the connection to the runtime is released on every exit path: it is
\* never open once execute has returned or raised.
C8_ClientReleased ==
  /\ pc \in {"returned", "raised"} => client # "open"
  /\ (pc = "returned" /\ received > 0) => client = "closed"

\* execute returned through the timeout path with the connection closed.
C8_Witness ==
  /\ pc = "returned"
  /\ deadline = "expired"
  /\ client = "closed"

\* C9: any exception raised during the turn becomes exactly one failed final
\* event whose body is the exception's text, and execute returns normally.
C9_ExceptionBecomesFailedEvent ==
  (pc = "returned" /\ error # NoError /\ deadline # "expired") =>
    /\ Cardinality(EventsWithBody(error.text)) = 1
    /\ Len(event_queue) \in EventsWithBody(error.text)
    /\ LastEvent.final
    /\ LastEvent.state = "failed"

\* C10: a request without a message makes execute raise an invalid-request
\* error before any event is emitted and before any connection is opened.
C10_NoMessageNoEvent ==
  ~context.message.present =>
    /\ event_queue = <<>>
    /\ client = "none"
    /\ pc \in {"execute", "raised"}
    /\ pc = "raised" => error.type = "ValueError"

\* execute raised on a request without a message.
C10_Witness ==
  /\ ~context.message.present
  /\ pc = "raised"

(***************************************************************************)
(* Properties of the receive loop, the bookkeeping events and cancel.      *)
(***************************************************************************)
\* Number of bookkeeping events execute enqueues before the turn
Bookkeeping == IF context.current_task THEN 1 ELSE 2

\* The events enqueued after the bookkeeping events
AfterBookkeeping == SubSeq(event_queue, Bookkeeping + 1, Len(event_queue))

InLoop == pc \in {"receive", "forward"}

\* The aggregator that has processed exactly the events of a sequence
RECURSIVE Aggregated(_)
Aggregated(events) ==
  IF Len(events) = 0 THEN TaskResultAggregator
  ELSE process_event(Aggregated(SubSeq(events, 1, Len(events) - 1)),
                     events[Len(events)])

\* The converted events of a sequence of runtime messages, in arrival order
RECURSIVE ConvertedEvents(_)
ConvertedEvents(messages) ==
  IF Len(messages) = 0 THEN <<>>
  ELSE convert_claude_sdk_message_to_a2a(Head(messages), task_id, context_id,
                                         app_name).events
         \o ConvertedEvents(Tail(messages))

IsPrefix(a, b) == Len(a) <= Len(b) /\ SubSeq(b, 1, Len(a)) = a

\* C12: in every state of the receive loop, every converted event the sink has
\* received has already been processed by the aggregator.
C12_SinkEventsAreAggregated ==
  InLoop =>
    /\ AfterBookkeeping = processed
    /\ task_result_aggregator = Aggregated(AfterBookkeeping)

\* Two converted events are in the sink, the first one with a message body.
C12_Witness ==
  /\ InLoop
  /\ Len(AfterBookkeeping) = 2
  /\ AfterBookkeeping[1].message.present
  /\ task_result_aggregator.task_status_message.present

BookkeepingWorking ==
  TaskStatusUpdateEvent(
    "working", NoMessage, FALSE,
    { <<"kagent_app_name", app_name>>, <<"kagent_session_id", context_id>> })

\* C14: for a request with a message, execute emits a non-final submitted
\* event if and only if the task is new, then exactly one non-final working
\* bookkeeping event tagged with the app name and the session identifier, and
\* both precede every converted event and the final event.
C14_BookkeepingFirst ==
  (context.message.present
     /\ pc \notin {"execute", "emit_submitted", "emit_working"}) =>
    /\ Len(event_queue) >= Bookkeeping
    /\ event_queue[Bookkeeping] = BookkeepingWorking
    /\ ~context.current_task =>
         event_queue[1] = TaskStatusUpdateEvent("submitted", context.message,
                                                FALSE, {})
    /\ \A i \in 1..Len(event_queue) :
         /\ (event_queue[i].kind = "status"
               /\ event_queue[i].state = "submitted")
              => (i = 1 /\ ~context.current_task)
         /\ event_queue[i] = BookkeepingWorking => i = Bookkeeping
         /\ event_queue[i].final => i > Bookkeeping

\* A request of an existing task: no submitted event, the working event
\* first, then a converted event and the final event.
C14_Witness ==
  /\ context.current_task
  /\ pc = "returned"
  /\ event_queue[1] = BookkeepingWorking
  /\ Len(processed) > 0
  /\ LastEvent.final

\* C15: cancel emits exactly one final cancelled event immediately and does
\* nothing else: the receive loop of a running execute is not interrupted and
\* its connection is not released.
C15_CancelOnlyEmits ==
  /\ [](cancel_called =>
          Cardinality({ i \in 1..Len(event_queue) :
                          event_queue[i] = CancelledEvent }) = 1)
  /\ [][(cancel_called' /\ ~cancel_called) =>
          /\ event_queue' = Append(event_queue, CancelledEvent)
          /\ CancelledEvent.final
          /\ CancelledEvent.state = "cancelled"
          /\ UNCHANGED <<pc, client, a2a_events, task_result_aggregator,
                         session_id, result_message_received, received,
                         stalled, deadline, error, options>>]_vars

\* After cancel, execute received a message on the open connection and
\* forwarded its converted event.
C15_Witness ==
  /\ cancel_called
  /\ pc = "receive"
  /\ client = "open"
  /\ Len(processed) > 0
  /\ LastEvent = processed[Len(processed)]
  /\ ~LastEvent.final
  /\ event_queue[Len(event_queue) - 1] = CancelledEvent

\* C16: execute never enqueues an ArtifactEvent whose parts are the parts of a
\* status event it already forwarded to the sink during the same execution.
C16_ArtifactNotAlreadyDelivered ==
  \A i \in 1..Len(event_queue) :
    event_queue[i].kind = "artifact" =>
      ~\E j \in 1..(i - 1) :
          /\ event_queue[j].kind = "status"
          /\ event_queue[j].message.present
          /\ event_queue[j].message.parts = event_queue[i].parts

TextOnlyAssistant(message) ==
  /\ message.class = "AssistantMessage"
  /\ \A i \in DOMAIN message.content : message.content[i].type = "text"

\* The stream was assistant messages of text blocks only, then one
\* terminal-metrics message without error
TextThenResult ==
  /\ Len(arrived) >= 1
  /\ arrived[Len(arrived)].class = "ResultMessage"
  /\ ~arrived[Len(arrived)].is_error
  /\ \A i \in 1..(Len(arrived) - 1) : TextOnlyAssistant(arrived[i])

HasToolResult(content) ==
  \E i \in DOMAIN content : content[i].type = "tool_result"

ConvertedAssistant ==
  /\ conv_result.converted
  /\ conv_message.class = "AssistantMessage"

ConvertedUser ==
  /\ conv_result.converted
  /\ conv_message.class = "UserMessage"

C18_OnePartPerBlock ==
  (/\ ConvertedAssistant
   /\ ~HasToolResult(conv_message.content)
   /\ Len(conv_message.content) > 0) =>
    /\ Len(conv_result.events) = 1
    /\ LET parts == conv_result.events[1].message.parts
       IN  /\ Len(parts) = Len(conv_message.content)
           /\ \A i \in DOMAIN conv_message.content :
                conv_message.content[i].type = "text" =>
                  parts[i] = TextPart(conv_message.content[i].text, FALSE)

\* The part a reasoning or tool-use block is converted to
BlockPart(block) ==
  IF block.type = "thinking"
  THEN [kind |-> "text", thought |-> TRUE,
        text |-> IF block.signature = ""
                 THEN "[Thinking: " \o block.thinking \o "]"
                 ELSE "[Thinking: " \o block.thinking \o "] (signature: "
                        \o block.signature \o ")"]
  ELSE [kind |-> "data", type |-> "function_call",
        data |-> [id |-> block.id, name |-> block.name, input |-> block.input]]

RECURSIVE ResponseParts(_, _)
ResponseParts(content, i) ==
  IF i > Len(content) THEN <<>>
  ELSE IF content[i].type = "tool_result"
  THEN <<[kind |-> "data", type |-> "function_response",
          data |-> [tool_use_id |-> content[i].tool_use_id,
                    content |-> content[i].content,
                    is_error |-> content[i].is_error]]>>
         \o ResponseParts(content, i + 1)
  ELSE ResponseParts(content, i + 1)

TwoDeltasOfOneSession ==
  /\ conv_previous # NoPrevious
  /\ conv_result.converted
  /\ conv_message.class = "StreamEvent"
  /\ Len(conv_previous.result.events) = 1
  /\ Len(conv_result.events) = 1
  /\ conv_previous.message.session_id = conv_message.session_id
  /\ "index" \in DOMAIN conv_previous.message.event
  /\ "index" \in DOMAIN conv_message.event

\* C21: two stream-event text deltas with the same session id and the same
\* content-block index produce events with the same message identifier, and two
\* deltas of the same session with different content-block indices produce
\* different message identifiers.
C21_StableMessageId ==
  TwoDeltasOfOneSession =>
    LET previous_id == conv_previous.result.events[1].message.message_id
        present_id == conv_result.events[1].message.message_id
    IN  (conv_previous.message.event.index = conv_message.event.index)
          <=> (previous_id = present_id)

\* Two deltas of different text for content block 0 of one session got the
\* same message identifier.
C21_Witness ==
  /\ TwoDeltasOfOneSession
  /\ conv_previous.message.event.index = 0
  /\ conv_message.event.index = 0
  /\ conv_previous.message.event.text # conv_message.event.text
  /\ conv_previous.result.events[1].message.message_id
       = conv_result.events[1].message.message_id

ConvertedResult ==
  /\ conv_result.converted
  /\ conv_message.class = "ResultMessage"

\* C22: a terminal-metrics message is never terminal by itself: converting it
\* yields exactly one non-final working event carrying the metrics as metadata
\* and no message body, whether its error flag is set or not, and never a
\* final=true event.
C22_ResultMessageIsNotTerminal ==
  ConvertedResult =>
    /\ ~conv_result.raised
    /\ Len(conv_result.events) = 1
    /\ LET event == conv_result.events[1]
           value(key) == { pair[2] : pair \in { q \in event.metadata : q[1] = key } }
       IN  /\ event.kind = "status"
           /\ event.state = "working"
           /\ ~event.final
           /\ ~event.message.present
           /\ value("kagent_session_id") = {conv_message.session_id}
           /\ value("kagent_duration_ms") = {conv_message.duration_ms}
           /\ value("kagent_duration_api_ms") = {conv_message.duration_api_ms}
           /\ value("kagent_num_turns") = {conv_message.num_turns}
           /\ value("kagent_is_error")
                = {IF conv_message.is_error THEN "True" ELSE "False"}
           /\ value("kagent_total_cost_usd")
                = {conv_message.total_cost_usd} \ {"None"}
           /\ value("kagent_usage") = {conv_message.usage} \ {""}
           /\ value("kagent_result") = {conv_message.result} \ {""}

\* A terminal-metrics message with the error flag set, a cost and a usage was
\* converted to a non-final event.
C22_Witness ==
  /\ ConvertedResult
  /\ conv_message.is_error
  /\ conv_message.total_cost_usd # "None"
  /\ conv_message.usage # ""
  /\ Len(conv_result.events) = 1
  /\ ~conv_result.events[1].final

ConvertedSystem ==
  /\ conv_result.converted
  /\ conv_message.class = "SystemMessage"

\* C23: converting a system message of subtype "error" always yields exactly
\* one terminal failed event (state failed, final=true) whose body is the error
\* payload; converting a system message of any other subtype yields no event.
C23_SystemErrorIsTerminal ==
  ConvertedSystem =>
    /\ ~conv_result.raised
    /\ IF conv_message.subtype = "error"
       THEN /\ Len(conv_result.events) = 1
            /\ conv_result.events[1].kind = "status"
            /\ conv_result.events[1].state = "failed"
            /\ conv_result.events[1].final
            /\ conv_result.events[1].message.present
            /\ conv_result.events[1].message.parts
                 = <<[kind |-> "text", thought |-> FALSE,
                      text |-> "Claude Code CLI Error: " \o conv_message.data]>>
       ELSE conv_result.events = <<>>

\* A system message of subtype "error" was converted to a final failed event.
C23_Witness ==
  /\ ConvertedSystem
  /\ conv_message.subtype = "error"
  /\ conv_message.data = "cli crashed"
  /\ Len(conv_result.events) = 1
  /\ conv_result.events[1].final

\* The texts of the text-typed parts, in order, separated by single spaces
RECURSIVE TextsJoined(_)
TextsJoined(parts) ==
  IF Len(parts) = 0 THEN ""
  ELSE LET last == parts[Len(parts)]
           front == SubSeq(parts, 1, Len(parts) - 1)
       IN  IF last.kind # "text" THEN TextsJoined(front)
           ELSE IF \E i \in DOMAIN front : front[i].kind = "text"
           THEN TextsJoined(front) \o " " \o last.text
           ELSE last.text

\* C24: for every inbound message, the prompt built from it is the
\* concatenation of the texts of its text-typed parts in original order joined
\* by a single space, non-text parts being ignored; parts [text "a", data,
\* text "b"] give "a b", and a message without text parts gives the empty
\* string.
C24_PromptIsJoinedText ==
  pc = "prompt_built" =>
    LET parts == context.message.parts
    IN  /\ user_prompt = TextsJoined(parts)
        /\ parts = <<TextPart("a", FALSE), DataPart("file", "blob"),
                     TextPart("b", FALSE)>> => user_prompt = "a b"
        /\ (\A i \in DOMAIN parts : parts[i].kind # "text") => user_prompt = ""

\* The prompt of the parts [text "a", data, text "b"] was built.
C24_Witness ==
  /\ pc = "prompt_built"
  /\ context.message.parts = <<TextPart("a", FALSE), DataPart("file", "blob"),
                               TextPart("b", FALSE)>>
  /\ user_prompt = "a b"

(***************************************************************************)
(* Properties of the session options and of the outcome after the loop.    *)
(***************************************************************************)
\* The session options of the call have been derived
OptionsDerived ==
  pc \notin {"execute", "raised", "emit_submitted", "emit_working",
             "handle_request"}

\* C25: there is no shared mutable state across the calls of execute on one
\* executor: the session options a call derives are written to a private copy
\* and leave the executor's configured options unchanged, so a call for a new
\* task made after a call that resumed an existing task does not carry that
\* task's resume token.
C25_OptionsNotShared ==
  /\ pc = "execute" => options = ConfiguredOptions
  /\ (OptionsDerived /\ ~context.current_task) =>
       options.resume = ConfiguredOptions.resume

Artifacts == { i \in 1..Len(event_queue) : event_queue[i].kind = "artifact" }

\* The loop ended normally and the outcome event was enqueued
OutcomeEmitted == pc = "returned" /\ deadline = "left" /\ error = NoError

\* The aggregator holds a status message with parts
HoldsMessage ==
  /\ task_result_aggregator.task_status_message.present
  /\ task_result_aggregator.task_status_message.parts # <<>>

\* The metadata of the outcome event: the app name, and the session id when
\* one is known
OutcomeMetadata ==
  { <<"kagent_app_name", app_name>> }
    \cup { <<"kagent_session_id", id>> : id \in {session_id} \ {""} }

\* C26: on the success path, execute emits exactly one ArtifactEvent with
\* last_chunk=true carrying the aggregator's last status message parts if and
\* only if that message exists and has non-empty parts, and this ArtifactEvent
\* is enqueued before the terminal completed event; the completed event carries
\* the app name (and the session id when known) as metadata.
C26_ArtifactThenCompleted ==
  /\ Cardinality(Artifacts) <= 1
  /\ Artifacts # {} => is_success
  /\ (OutcomeEmitted /\ is_success) =>
       /\ LastEvent = [kind |-> "status", state |-> "completed",
                       message |-> NoMessage, final |-> TRUE,
                       metadata |-> OutcomeMetadata]
       /\ IF HoldsMessage
          THEN /\ Artifacts = {Len(event_queue) - 1}
               /\ event_queue[Len(event_queue) - 1].last_chunk
               /\ event_queue[Len(event_queue) - 1].parts
                    = task_result_aggregator.task_status_message.parts
          ELSE Artifacts = {}

\* A successful turn with an accumulated message: the artifact, then the
\* completed event with the session id.
C26_Witness ==
  /\ OutcomeEmitted
  /\ is_success
  /\ HoldsMessage
  /\ Artifacts = {Len(event_queue) - 1}
  /\ <<"kagent_session_id", "s1">> \in LastEvent.metadata

\* C27: on the non-success path after the loop, the final event's body is the
\* aggregator's last status message when that message has non-empty parts, and
\* otherwise the default "failed without error details" message; the final
\* event never has a missing or empty message body.
C27_FailureBody ==
  (OutcomeEmitted /\ ~is_success) =>
    /\ LastEvent.kind = "status"
    /\ LastEvent.final
    /\ LastEvent.message.present
    /\ LastEvent.message.parts # <<>>
    /\ IF HoldsMessage
       THEN LastEvent.message = task_result_aggregator.task_status_message
       ELSE LastEvent.message.parts
              = <<[kind |-> "text", thought |-> FALSE,
                   text |-> "Task failed without error details. Check agent logs."]>>

\* A turn without success and without an accumulated message ended with the
\* default body.
C27_Witness ==
  /\ OutcomeEmitted
  /\ ~is_success
  /\ ~HoldsMessage
  /\ Len(arrived) > 0
  /\ LastEvent.message.parts = <<TextPart(DefaultFailureText, FALSE)>>

\* The last two messages received are a system error and, after it, a
\* terminal-metrics message without error
ErrorThenMetrics ==
  /\ Len(arrived) >= 2
  /\ arrived[Len(arrived) - 1].class = "SystemMessage"
  /\ arrived[Len(arrived) - 1].subtype = "error"
  /\ arrived[Len(arrived)].class = "ResultMessage"
  /\ ~arrived[Len(arrived)].is_error

\* The body made of a system error's payload
ErrorBody(message) ==
  <<[kind |-> "text", thought |-> FALSE,
     text |-> "Claude Code CLI Error: " \o message.data]>>

\* C28: if a system message of subtype error is received and a
\* terminal-metrics message with is_error=false arrives after it, the
\* aggregator keeps state failed and keeps the error message as its last status
\* message, and execute's outcome after the loop is failed with the error
\* payload as body, never completed.
C28_FailureSurvivesMetrics ==
  ErrorThenMetrics =>
    /\ task_result_aggregator.task_state = "failed"
    /\ task_result_aggregator.task_status_message.present
    /\ task_result_aggregator.task_status_message.parts
         = ErrorBody(arrived[Len(arrived) - 1])
    /\ \A i \in 1..Len(event_queue) :
         event_queue[i].kind = "status" /\ event_queue[i].state # "completed"
    /\ OutcomeEmitted =>
         /\ LastEvent.final
         /\ LastEvent.state = "failed"
         /\ LastEvent.message.parts = ErrorBody(arrived[Len(arrived) - 1])

\* The metrics event was forwarded after the system error, and the outcome is
\* failed.
C28_Witness ==
  /\ ErrorThenMetrics
  /\ OutcomeEmitted
  /\ Len(processed) = 2
  /\ ~processed[2].message.present
  /\ LastEvent.state = "failed"

\* The final events of the outcome after the loop: they carry the app name
OutcomeEvents ==
  { i \in FinalEvents : <<"kagent_app_name", app_name>> \in event_queue[i].metadata }

\* C29: the deadline is one timer for the whole exchange and is not restarted
\* by the arrival of a message: a stream that keeps delivering messages past
\* the deadline ends in the timeout failure, a receive loop that ends before
\* the deadline never yields the timeout failure, and exactly one of the two
\* (loop end, deadline) determines the outcome.
C29_OneDeadlineDecides ==
  /\ deadline = "expired" =>
       /\ pc \in {"timeout_handler", "returned"}
       /\ OutcomeEvents = {}
       /\ pc = "returned" => Len(event_queue) \in EventsWithBody(TimeoutText)
  /\ EventsWithBody(TimeoutText) # {} => deadline = "expired"
  /\ ~(EventsWithBody(TimeoutText) # {} /\ OutcomeEvents # {})

\* The session id of the last message of a sequence that has one ("" if none)
RECURSIVE LastSessionId(_)
LastSessionId(messages) ==
  IF Len(messages) = 0 THEN ""
  ELSE IF "session_id" \in DOMAIN messages[Len(messages)]
  THEN messages[Len(messages)].session_id
  ELSE LastSessionId(SubSeq(messages, 1, Len(messages) - 1))

\* The last terminal-metrics message of a sequence (NoResult if none)
RECURSIVE LastResultMessage(_)
LastResultMessage(messages) ==
  IF Len(messages) = 0 THEN NoResult
  ELSE IF messages[Len(messages)].class = "ResultMessage"
  THEN messages[Len(messages)]
  ELSE LastResultMessage(SubSeq(messages, 1, Len(messages) - 1))

\* C30: the session identifier and the retained terminal-metrics message are
\* last-writer-wins over the received messages: the session id carried in the
\* final event's metadata is that of the last received message that has one,
\* and the success decision uses the error flag of the last terminal-metrics
\* message received, not of an earlier one.
C30_LastWriterWins ==
  /\ session_id = LastSessionId(arrived)
  /\ result_message_received = LastResultMessage(arrived)
  /\ OutcomeEmitted =>
       /\ { pair[2] : pair \in { q \in LastEvent.metadata :
                                   q[1] = "kagent_session_id" } }
            = {LastSessionId(arrived)} \ {""}
       /\ LastEvent.state = "completed" =>
            /\ LastResultMessage(arrived) # NoResult
            /\ ~LastResultMessage(arrived).is_error
       /\ (LastResultMessage(arrived) # NoResult
             /\ LastResultMessage(arrived).is_error) =>
            LastEvent.state # "completed"

\* A terminal-metrics message without error of session s1 was followed by one
\* with the error flag of session s2: the outcome is not completed and carries
\* s2.
C30_Witness ==
  /\ OutcomeEmitted
  /\ Len(arrived) = 2
  /\ arrived[1].class = "ResultMessage"
  /\ ~arrived[1].is_error
  /\ arrived[1].session_id = "s1"
  /\ arrived[2].class = "ResultMessage"
  /\ arrived[2].is_error
  /\ <<"kagent_session_id", "s2">> \in LastEvent.metadata
  /\ LastEvent.state # "completed"

\* C31: the session continuation policy of a turn is exactly one of three:
\* resume the existing conversation (resume token = context id) when a prior
\* task exists; otherwise continue the most recent conversation when the
\* configuration asks for it; otherwise start fresh. A turn that resumes does
\* not also request continue-most-recent, and a turn for a new task never
\* carries a resume token.
C31_OneContinuationPolicy ==
  OptionsDerived =>
    /\ context.current_task =>
         /\ options.resume = context_id
         /\ ~options.continue_conversation
    /\ ~context.current_task =>
         /\ options.resume = ""
         /\ options.continue_conversation = config.continue_conversation

(***************************************************************************)
(* More properties of the converter.                                       *)
(***************************************************************************)
ConvertedStream ==
  /\ conv_result.converted
  /\ conv_message.class = "StreamEvent"

\* The stream event is a content-delta sub-event that carries a text delta
CarriesTextDelta(event) ==
  /\ event.type = "content_block_delta"
  /\ event.delta_type = "text_delta"
  /\ event.text # ""

\* C32: converting a stream event emits one non-final event per delta, tagged
\* streaming=true and stream_delta=true and carrying the delta text, exactly
\* when the event is a content-delta sub-event carrying a text delta; every
\* other stream event (other sub-event type, non-text delta, missing event
\* payload) yields no event.
C32_OnlyTextDeltasProduceEvents ==
  ConvertedStream =>
    /\ ~conv_result.raised
    /\ IF CarriesTextDelta(conv_message.event)
       THEN /\ Len(conv_result.events) = 1
            /\ conv_result.events[1].kind = "status"
            /\ conv_result.events[1].state = "working"
            /\ ~conv_result.events[1].final
            /\ <<"kagent_streaming", "True">> \in conv_result.events[1].metadata
            /\ <<"kagent_stream_delta", "True">>
                 \in conv_result.events[1].metadata
            /\ conv_result.events[1].message.parts
                 = <<[kind |-> "text", thought |-> FALSE,
                      text |-> conv_message.event.text]>>
       ELSE conv_result.events = <<>>

\* A delta that is not a text delta was converted to no event.
C32_Witness ==
  /\ ConvertedStream
  /\ conv_message.event.type = "content_block_delta"
  /\ conv_message.event.delta_type = "input_json_delta"
  /\ conv_result.events = <<>>

\* The reasoning blocks of a content, in block order
ReasoningBlocks(content) ==
  SelectSeq(content, LAMBDA block : block.type = "thinking")

\* The parts of an event that are tagged as thoughts, in order
ThoughtParts(events) ==
  IF Len(events) = 0 THEN <<>>
  ELSE SelectSeq(events[1].message.parts,
                 LAMBDA part : part.kind = "text" /\ part.thought)

\* C33: for an assistant message containing a reasoning block, the produced
\* text part contains the reasoning text inside a visible marker, contains the
\* block's signature whenever the signature is present and non-empty, and its
\* metadata carries thought=true.
C33_ReasoningPart ==
  (ConvertedAssistant /\ ~HasToolResult(conv_message.content)) =>
    LET blocks == ReasoningBlocks(conv_message.content)
        parts == ThoughtParts(conv_result.events)
    IN  /\ Len(parts) = Len(blocks)
        /\ \A i \in 1..Len(blocks) :
             parts[i].text =
               IF blocks[i].signature # ""
               THEN "[Thinking: " \o blocks[i].thinking \o "] (signature: "
                      \o blocks[i].signature \o ")"
               ELSE "[Thinking: " \o blocks[i].thinking \o "]"

\* A reasoning block with a signature and one without were converted.
C33_Witness ==
  /\ ConvertedAssistant
  /\ Len(ReasoningBlocks(conv_message.content)) = 2
  /\ ReasoningBlocks(conv_message.content)[1].signature = "sig-123"
  /\ ReasoningBlocks(conv_message.content)[2].signature = ""
  /\ Len(ThoughtParts(conv_result.events)) = 2

(***************************************************************************)
(* More properties of execute and cancel.                                  *)
(***************************************************************************)
\* C34: the timeout failure event is emitted only when the deadline timer of
\* this execution actually expired: a timeout-type error raised by the
\* runtime's message stream before the deadline is reported as an execution
\* error carrying that error's own text, not as a deadline timeout.
C34_TimeoutOnlyOnDeadline ==
  (pc = "returned" /\ error.type = "TimeoutError" /\ deadline # "expired") =>
    /\ EventsWithBody(TimeoutText) = {}
    /\ Len(event_queue) \in EventsWithBody(error.text)

\* C35: in every reachable state of one execute call, the aggregator's
\* recorded state is working or failed: every event the converter produces has
\* state working except the system-error event, which has state failed, so the
\* final event emitted after the loop never has state cancelled or submitted.
C35_AggregatorWorkingOrFailed ==
  /\ task_result_aggregator.task_state \in {"working", "failed"}
  /\ \A i \in 1..Len(processed) :
       /\ processed[i].kind = "status"
       /\ processed[i].state \in {"working", "failed"}
       /\ processed[i].state = "failed" <=>
            (processed[i].message.present
               /\ \E j \in 1..Len(arrived) :
                    /\ arrived[j].class = "SystemMessage"
                    /\ arrived[j].subtype = "error"
                    /\ processed[i].message.parts = ErrorBody(arrived[j]))
  /\ OutcomeEmitted => LastEvent.state \notin {"cancelled", "submitted"}

\* A system error was recorded, a later working event was processed, and the
\* outcome after the loop is failed.
C35_Witness ==
  /\ OutcomeEmitted
  /\ Len(processed) = 2
  /\ processed[1].state = "failed"
  /\ processed[2].state = "working"
  /\ task_result_aggregator.task_state = "failed"
  /\ LastEvent.state = "failed"

\* The positions of the cancelled event that cancel enqueued while execute was
\* in flight: after execute's first event and before any final event of it
CancelledInFlight ==
  { k \in 2..Len(event_queue) :
      /\ event_queue[k] = CancelledEvent
      /\ \A i \in 1..(k - 1) : ~event_queue[i].final }

\* C36: when cancel is called for a task while execute for the same task is in
\* flight and both write to the same sink, the sink receives at most one
\* final=true event for that task, and receives no non-final event after the
\* terminal cancelled event.
C36_CancelledIsLast ==
  \A k \in CancelledInFlight :
    /\ Cardinality(FinalEvents) <= 1
    /\ \A i \in (k + 1)..Len(event_queue) : event_queue[i].final

(***************************************************************************)
(* The slackbot's agent discovery: AgentDiscovery.discover_agents and the  *)
(* AgentInfo objects it caches                                              *)
(***************************************************************************)

\* Seconds a refreshed cache is served before the API is asked again
AGENT_CACHE_TTL == 300

\* Longest agent list of an API response
MaxAgents == 2

\* How many times the clock advances
MaxTicks == 4

\* An entry of the API's agent list, as AgentInfo.__init__ reads it
AgentData(name, ready) ==
  [agent |->
     [metadata |-> [namespace |-> "kagent", name |-> name],
      spec |-> [type |-> "Declarative"],
      status |-> [conditions |->
                    IF ready THEN <<[type |-> "Ready", status |-> "True"]>>
                    ELSE <<>>]]]

\* An entry whose spec has no "type"
MalformedAgentData(name) ==
  [agent |->
     [metadata |-> [namespace |-> "kagent", name |-> name],
      spec |-> [description |-> "no type"],
      status |-> [conditions |-> <<>>]]]

_check_ready(status) ==
  \E i \in 1..Len(status.conditions) :
    /\ status.conditions[i].type = "Ready"
    /\ status.conditions[i].status = "True"

\* AgentInfo.__init__ raises KeyError on an entry without the keys it indexes
AgentInfoRaises(data) ==
  \/ "metadata" \notin DOMAIN data.agent
  \/ "spec" \notin DOMAIN data.agent
  \/ "type" \notin DOMAIN data.agent.spec
  \/ "status" \notin DOMAIN data.agent

AgentInfo(data) ==
  [namespace |-> data.agent.metadata.namespace,
   name |-> data.agent.metadata.name,
   type |-> data.agent.spec.type,
   ready |-> _check_ready(data.agent.status)]

\* AgentInfo.ref
ref(agent_info) == agent_info.namespace \o "/" \o agent_info.name

\* self.cache[agent_info.ref] = agent_info
StoreAgent(agents, agent_info) ==
  { a \in agents : ref(a) # ref(agent_info) } \cup {agent_info}

\* The loop that builds the cache: the agents stored when it ends or raises
RECURSIVE BuildCache(_, _, _)
BuildCache(agents_data, i, built) ==
  IF i > Len(agents_data)
  THEN [raised |-> FALSE, cache |-> built]
  ELSE IF AgentInfoRaises(agents_data[i])
       THEN [raised |-> TRUE, cache |-> built]
       ELSE BuildCache(agents_data, i + 1,
                       StoreAgent(built, AgentInfo(agents_data[i])))

AgentEntries ==
  {AgentData("a1", TRUE), AgentData("a1", FALSE), AgentData("a2", TRUE),
   MalformedAgentData("a3")}

\* What the API answers: an HTTP error, or a list of agent entries
ApiResponses ==
  {[status_code |-> 500]} \cup
  { [status_code |-> 200, data |-> d] : d \in SeqsUpTo(AgentEntries, MaxAgents) }

\* The record of one call of discover_agents
Discovered(force_refresh, fetched, failed, raised, agents) ==
  [called |-> TRUE, force_refresh |-> force_refresh, now |-> clock,
   cache_before |-> cache, last_refresh_before |-> last_refresh,
   fetched |-> fetched, failed |-> failed, raised |-> raised,
   agents |-> agents]

\* An except branch that raises whatever the cache holds
ExceptBranchRaising(force_refresh, stale) ==
  discovered' = Discovered(force_refresh, TRUE, TRUE, TRUE, {})

\* The except branch: the cache is returned if it holds agents, else the
\* error is raised
ExceptBranch(force_refresh, stale) ==
  discovered' = Discovered(force_refresh, TRUE, TRUE, stale = {}, stale)

\* One call of discover_agents
discover_agents(force_refresh) ==
  /\ pc = "discovery"
  /\ LET now == clock IN
     IF ~force_refresh /\ (now - last_refresh) < AGENT_CACHE_TTL
     THEN /\ discovered' = Discovered(force_refresh, FALSE, FALSE, FALSE, cache)
          /\ UNCHANGED <<cache, last_refresh>>
     ELSE \E response \in ApiResponses :
            IF response.status_code # 200
            THEN \* raise_for_status raises: the except branch
                 /\ ExceptBranch(force_refresh, cache)
                 /\ UNCHANGED <<cache, last_refresh>>
            ELSE LET build == BuildCache(response.data, 1, {}) IN
                 /\ cache' = build.cache
                 /\ IF build.raised
                    THEN \* the except branch, with the cache as the loop left it
                         /\ ExceptBranch(force_refresh, build.cache)
                         /\ UNCHANGED last_refresh
                    ELSE /\ last_refresh' = now
                         /\ discovered' = Discovered(force_refresh, TRUE, FALSE,
                                                     FALSE, build.cache)
  /\ UNCHANGED <<pc, clock, response_text, max_length, chunks, executor_vars>>

\* Time passes between two calls
Tick ==
  /\ pc = "discovery"
  /\ clock < 1000 + 100 * MaxTicks
  /\ clock' = clock + 100
  /\ UNCHANGED <<pc, cache, last_refresh, discovered, response_text,
                 max_length, chunks, executor_vars>>

\* The executor is not running while the slackbot's services are considered
ExecutorIdle ==
  /\ context = [message |-> NoMessage, current_task |-> FALSE]
  /\ config = [continue_conversation |-> FALSE,
               include_partial_messages |-> TRUE, max_turns |-> 0]
  /\ options = ConfiguredOptions
  /\ event_queue = <<>>
  /\ client = "none"
  /\ user_prompt = ""
  /\ task_result_aggregator = TaskResultAggregator
  /\ session_id = ""
  /\ result_message_received = NoResult
  /\ a2a_events = <<>>
  /\ received = 0
  /\ stalled = FALSE
  /\ deadline = "unset"
  /\ error = NoError
  /\ arrived = <<>>
  /\ processed = <<>>
  /\ cancel_called = FALSE
  /\ conv_message = NoInput
  /\ conv_result = NotConverted
  /\ conv_previous = NoPrevious

\* AgentDiscovery as constructed, at some time of day
DiscoveryInit ==
  /\ pc = "discovery"
  /\ ExecutorIdle
  /\ cache = {}
  /\ last_refresh = 0
  /\ clock = 1000
  /\ discovered = NotCalled
  /\ response_text = <<>>
  /\ max_length = 0
  /\ chunks = <<>>

DiscoveryNext ==
  \/ \E force_refresh \in BOOLEAN : discover_agents(force_refresh)
  \/ Tick

DiscoverySpec == DiscoveryInit /\ [][DiscoveryNext]_vars

(***************************************************************************)
(* Properties of discover_agents                                            *)
(***************************************************************************)

\* The call found a refreshed cache younger than the TTL and was not forced
ServedFromCache ==
  /\ ~discovered.force_refresh
  /\ (discovered.now - discovered.last_refresh_before) < AGENT_CACHE_TTL

C38_FailedRefreshKeepsCache ==
  (discovered.called /\ discovered.failed) =>
    /\ cache = discovered.cache_before
    /\ last_refresh = discovered.last_refresh_before
    /\ ~discovered.raised => discovered.agents = discovered.cache_before

(***************************************************************************)
(* The slackbot's formatter: chunk_text.  A text is the sequence of its    *)
(* characters.                                                              *)
(***************************************************************************)

\* Longest text given to chunk_text, and largest max_length
MaxTextLen == 5

\* The characters of the texts: a letter and the line break
Characters == {"x", "\n"}

\* text.split("\n")
RECURSIVE split(_)
split(s) ==
  IF \A i \in 1..Len(s) : s[i] # "\n"
  THEN <<s>>
  ELSE LET i == CHOOSE j \in 1..Len(s) :
                  /\ s[j] = "\n"
                  /\ \A k \in 1..(j - 1) : s[k] # "\n"
       IN <<SubSeq(s, 1, i - 1)>> \o split(SubSeq(s, i + 1, Len(s)))

\* The loop over the lines, and the append that follows it
RECURSIVE ChunkLines(_, _, _, _, _)
ChunkLines(lines, i, limit, done, current_chunk) ==
  IF i > Len(lines)
  THEN IF current_chunk # <<>> THEN Append(done, current_chunk) ELSE done
  ELSE LET line == lines[i] IN
       IF Len(current_chunk) + Len(line) + 1 > limit
       THEN ChunkLines(lines, i + 1, limit,
                       IF current_chunk # <<>>
                       THEN Append(done, current_chunk) ELSE done,
                       line)
       ELSE ChunkLines(lines, i + 1, limit, done,
                       IF current_chunk # <<>>
                       THEN current_chunk \o <<"\n">> \o line
                       ELSE line)

chunk_text(s, limit) ==
  IF Len(s) <= limit
  THEN <<s>>
  ELSE ChunkLines(split(s), 1, limit, <<>>, <<>>)

\* A text and a limit are given to chunk_text
ChunkInit ==
  /\ pc = "chunk_text"
  /\ ExecutorIdle
  /\ cache = {}
  /\ last_refresh = 0
  /\ clock = 0
  /\ discovered = NotCalled
  /\ response_text \in SeqsUpTo(Characters, MaxTextLen)
  /\ max_length \in 1..MaxTextLen
  /\ chunks = <<>>

\* chunks = chunk_text(response_text)
ChunkText ==
  /\ pc = "chunk_text"
  /\ chunks' = chunk_text(response_text, max_length)
  /\ pc' = "chunked"
  /\ UNCHANGED <<cache, last_refresh, clock, discovered, response_text,
                 max_length, executor_vars>>

ChunkNext == ChunkText

ChunkSpec == ChunkInit /\ [][ChunkNext]_vars

(***************************************************************************)
(* Properties of chunk_text                                                 *)
(***************************************************************************)

\* C39: every chunk chunk_text returns has length at most max_length, also
\* when a single line of the text is longer than max_length.
C39_ChunksFitLimit ==
  pc = "chunked" =>
    \A i \in 1..Len(chunks) : Len(chunks[i]) <= max_length

====
